---- MODULE Spec2Model ----
(***************************************************************************)
(* A model of wamp, the wam (WebAssembly Macro language) processor of      *)
(* kanaka/wam (src/wamp.js): tokenize -> read_str -> wam_eval -> emit.     *)
(*                                                                         *)
(* Text is modelled as a sequence of one-character strings, a token as a   *)
(* sequence of characters, and a syntax node as a record                   *)
(*     [type, val, start, end]                                             *)
(* where type is the JavaScript class of the node, val is the token text   *)
(* (atoms) or the sequence of children (List, Splice), and start/end are   *)
(* the leading/trailing Whitespace nodes.                                  *)
(***************************************************************************)
EXTENDS Integers, Sequences, FiniteSets, TLC

VARIABLES corpus, srcs, tree, asts, ctx, log, out, status

vars == <<corpus, srcs, tree, asts, ctx, log, out, status>>

(***************************************************************************)
(* Characters and character classes of the regular expressions            *)
(***************************************************************************)

\* the characters "." does not match in a JavaScript regular expression
LineTerminators == {"\n", "\r"}

\* [\s]
IsSpace(c) == c \in {" ", "\t", "\n", "\r"}

\* the third alternative of tok_re: one bracket or punctuation character
\* (the backquote, which a TLA+ string cannot hold, occurs in no modelled text)
BracketChars == {"[", "]", "{", "}", "(", ")", "~", "^", "@"}

\* the last alternative of tok_re: the characters of a bare atom
IsAtomChar(c) ==
    /\ ~IsSpace(c)
    /\ c \notin {"[", "]", "{", "}", "(", ")", "'", "\"", "@", ",", ";"}

\* [0-9xa-fA-F] of int_re
IntChars ==
    {"0", "1", "2", "3", "4", "5", "6", "7", "8", "9", "x",
     "a", "b", "c", "d", "e", "f", "A", "B", "C", "D", "E", "F"}

DecDigits == {"0", "1", "2", "3", "4", "5", "6", "7", "8", "9"}

Min(S) == CHOOSE x \in S : \A y \in S : x <= y

RECURSIVE Concat(_)
\* Array.prototype.join(""): the concatenation of a sequence of texts
Concat(ss) ==
    IF ss = <<>> THEN <<>>
    ELSE IF Len(ss) = 1 THEN ss[1]
    ELSE Concat(SubSeq(ss, 1, Len(ss) \div 2))
            \o Concat(SubSeq(ss, Len(ss) \div 2 + 1, Len(ss)))

StartsWith(s, p) == Len(s) >= Len(p) /\ SubSeq(s, 1, Len(p)) = p

(***************************************************************************)
(* tokenize: tok_re is applied with the g flag, so at every position the   *)
(* alternatives are tried in order and a character at which none matches   *)
(* is skipped.  tok_match gives the index just past the token matched at   *)
(* position i, or 0 when no alternative matches there.                     *)
(***************************************************************************)

\* [\s][\s]*
SpaceEnd(str, i) ==
    Min({j \in (i + 1)..(Len(str) + 1) : j = Len(str) + 1 \/ ~IsSpace(str[j])})

\* [(];.*?;[)] : the first ";)" on the same line, after the opening "(;"
BlockCommentEnd(str, i) ==
    LET n == Len(str)
        ends == {k \in (i + 2)..(n - 1) :
                    /\ str[k] = ";"
                    /\ str[k + 1] = ")"
                    /\ \A m \in (i + 2)..(k - 1) : str[m] \notin LineTerminators}
    IN  IF i < n /\ str[i] = "(" /\ str[i + 1] = ";" /\ ends # {}
        THEN Min(ends) + 2
        ELSE 0

RECURSIVE QuoteBody(_, _, _)
\* (?:[\\].|[^\\q])* : the index at which the body of a quoted string stops
QuoteBody(str, j, q) ==
    IF j > Len(str) THEN j
    ELSE IF str[j] = "\\"
         THEN IF j < Len(str) /\ str[j + 1] \notin LineTerminators
              THEN QuoteBody(str, j + 2, q)
              ELSE j
    ELSE IF str[j] = q THEN j
    ELSE QuoteBody(str, j + 1, q)

\* q(?:[\\].|[^\\q])*q? : the closing quote is optional
QuoteEnd(str, i, q) ==
    LET j == QuoteBody(str, i + 1, q)
    IN  IF j <= Len(str) /\ str[j] = q THEN j + 1 ELSE j

\* ;;.*
LineEnd(str, i) ==
    Min({j \in (i + 2)..(Len(str) + 1) :
            j = Len(str) + 1 \/ str[j] \in LineTerminators})

\* a maximal run of atom characters
AtomEnd(str, i) ==
    Min({j \in (i + 1)..(Len(str) + 1) : j = Len(str) + 1 \/ ~IsAtomChar(str[j])})

tok_match(str, i) ==
    LET c == str[i]
    IN  IF IsSpace(c) THEN SpaceEnd(str, i)
        ELSE IF BlockCommentEnd(str, i) # 0 THEN BlockCommentEnd(str, i)
        ELSE IF c \in BracketChars THEN i + 1
        ELSE IF c = "'" \/ c = "\"" THEN QuoteEnd(str, i, c)
        ELSE IF c = ";" /\ i < Len(str) /\ str[i + 1] = ";" THEN LineEnd(str, i)
        ELSE IF IsAtomChar(c) THEN AtomEnd(str, i)
        ELSE 0

RECURSIVE tokenize_from(_, _)
tokenize_from(str, i) ==
    IF i > Len(str) THEN <<>>
    ELSE LET e == tok_match(str, i)
         IN  IF e = 0
             THEN tokenize_from(str, i + 1)
             ELSE <<SubSeq(str, i, e - 1)>> \o tokenize_from(str, e)

tokenize(str) == tokenize_from(str, 1)

\* space_re = /^([\s]+|;;.*|[(];.*)$/ ; "$" matches at the very end only
is_whitespace(tok) ==
    /\ Len(tok) > 0
    /\ \/ \A k \in 1..Len(tok) : IsSpace(tok[k])
       \/ /\ StartsWith(tok, <<";", ";">>) \/ StartsWith(tok, <<"(", ";">>)
          /\ \A k \in 3..Len(tok) : tok[k] \notin LineTerminators

\* int_re = /^-?[0-9xa-fA-F]+$/
int_re(tok) ==
    LET d == IF Len(tok) > 0 /\ tok[1] = "-" THEN Tail(tok) ELSE tok
    IN  Len(d) > 0 /\ \A k \in 1..Len(d) : d[k] \in IntChars

\* float_re = /^-?[0-9][0-9.]*$/
float_re(tok) ==
    LET d == IF Len(tok) > 0 /\ tok[1] = "-" THEN Tail(tok) ELSE tok
    IN  /\ Len(d) > 0
        /\ d[1] \in DecDigits
        /\ \A k \in 2..Len(d) : d[k] \in DecDigits \cup {"."}

(***************************************************************************)
(* Ast nodes                                                               *)
(***************************************************************************)

Node(t, v) == [type |-> t, val |-> v, start |-> <<>>, end |-> <<>>]

\* Node.surround
surround(n, s, e) == [n EXCEPT !.start = s, !.end = e]

IsList(n) == n.type \in {"List", "Splice"}

\* List.words
words(lst) == SelectSeq(lst, LAMBDA t : t.type # "Whitespace")

\* the value read_form returns for a comment token: the token itself, a
\* JavaScript string and no Node (it has no val, start or end property)
JSString(tok) == Node("JSString", tok)

NoNode == Node("None", <<>>)

IsAtom(n) == n.type \in {"Whitespace", "Name", "Literal", "Str", "Integer", "Float"}

(***************************************************************************)
(* Keywords and the fixed text of the macros' templates                    *)
(***************************************************************************)

K_i32_const == <<"i", "3", "2", ".", "c", "o", "n", "s", "t">>
K_i64_const == <<"i", "6", "4", ".", "c", "o", "n", "s", "t">>
K_f32_const == <<"f", "3", "2", ".", "c", "o", "n", "s", "t">>
K_f64_const == <<"f", "6", "4", ".", "c", "o", "n", "s", "t">>
K_if == <<"i", "f">>
K_result == <<"r", "e", "s", "u", "l", "t">>
K_i32 == <<"i", "3", "2">>
K_module == <<"m", "o", "d", "u", "l", "e">>
K_call == <<"c", "a", "l", "l">>
K_get_local == <<"g", "e", "t", "_", "l", "o", "c", "a", "l">>
K_get_global == <<"g", "e", "t", "_", "g", "l", "o", "b", "a", "l">>
K_local == <<"l", "o", "c", "a", "l">>
K_param == <<"p", "a", "r", "a", "m">>
K_set_local == <<"s", "e", "t", "_", "l", "o", "c", "a", "l">>
K_set_global == <<"s", "e", "t", "_", "g", "l", "o", "b", "a", "l">>
K_AND == <<"A", "N", "D">>
K_OR == <<"O", "R">>
K_CHR == <<"C", "H", "R">>
K_STRING == <<"S", "T", "R", "I", "N", "G">>
K_STATIC_ARRAY ==
    <<"S", "T", "A", "T", "I", "C", "_", "A", "R", "R", "A", "Y">>
K_LET == <<"L", "E", "T">>
K_import == <<"i", "m", "p", "o", "r", "t">>
K_global == <<"g", "l", "o", "b", "a", "l">>
K_table == <<"t", "a", "b", "l", "e">>
K_memory == <<"m", "e", "m", "o", "r", "y">>
K_export == <<"e", "x", "p", "o", "r", "t">>
K_type == <<"t", "y", "p", "e">>
K_br == <<"b", "r">>
K_br_if == <<"b", "r", "_", "i", "f">>
K_br_table == <<"b", "r", "_", "t", "a", "b", "l", "e">>
K_func == <<"f", "u", "n", "c">>
K_block == <<"b", "l", "o", "c", "k">>
K_loop == <<"l", "o", "o", "p">>
K_constructor == <<"c", "o", "n", "s", "t", "r", "u", "c", "t", "o", "r">>
K_toString == <<"t", "o", "S", "t", "r", "i", "n", "g">>
K_valueOf == <<"v", "a", "l", "u", "e", "O", "f">>
K_hasOwnProperty ==
    <<"h", "a", "s", "O", "w", "n", "P", "r", "o", "p", "e", "r", "t", "y">>

T_addr_open ==
    <<"(", "i", "3", "2", ".", "a", "d", "d", " ", "(", "g", "e", "t", "_",
     "g", "l", "o", "b", "a", "l", " ", "$", "m", "e", "m", "o", "r", "y",
     "B", "a", "s", "e", ")", " ", "(", "g", "e", "t", "_", "g", "l", "o",
     "b", "a", "l", " ">>
T_addr_close == <<")", ")">>
T_S_STRING == <<"$", "S", "_", "S", "T", "R", "I", "N", "G", "_">>
T_S_STATIC_ARRAY ==
    <<"$", "S", "_", "S", "T", "A", "T", "I", "C", "_", "A", "R", "R", "A",
     "Y", "_">>
T_hoisted_open ==
    <<"(", ";", " ", "h", "o", "i", "s", "t", "e", "d", " ", "t", "o", " ",
     "t", "o", "p", ":", " ">>
T_comment_close == <<" ", ";", ")">>
T_chr_open ==
    <<"(", "i", "3", "2", ".", "c", "o", "n", "s", "t", " ", "0", "x">>
T_chr_comment == <<" ", "(", ";", " ">>
T_chr_close == <<" ", ";", ")", ")">>
T_function == <<"f", "u", "n", "c", "t", "i", "o", "n", " ">>
T_native_code ==
    <<"(", ")", " ", "{", " ", "[", "n", "a", "t", "i", "v", "e", " ", "c",
     "o", "d", "e", "]", " ", "}">>
T_global_open == <<" ", " ", "(", "g", "l", "o", "b", "a", "l", " ">>
T_global_mid ==
    <<" ", " ", "i", "3", "2", " ", "(", "i", "3", "2", ".", "c", "o", "n",
     "s", "t", " ">>
T_global_close == <<")", ")", "\n">>
T_string_end ==
    <<" ", " ", "(", "g", "l", "o", "b", "a", "l", " ", "$", "S", "_", "S",
     "T", "R", "I", "N", "G", "_", "E", "N", "D", " ", " ", "i", "3", "2",
     " ", "(", "i", "3", "2", ".", "c", "o", "n", "s", "t", " ">>
T_string_end_close == <<")", ")", "\n", "\n">>
T_data_open ==
    <<" ", " ", "(", "d", "a", "t", "a", "\n", " ", " ", " ", " ", "(", "g",
     "e", "t", "_", "g", "l", "o", "b", "a", "l", " ", "$", "m", "e", "m",
     "o", "r", "y", "B", "a", "s", "e", ")", "\n">>
T_data_null ==
    <<" ", " ", " ", " ", "\"", "\\", "d", "e", "\\", "a", "d", "\\", "b",
     "e", "\\", "e", "f", "\"", " ", ";", ";", " ", "s", "k", "i", "p", " ",
     "f", "i", "r", "s", "t", "/", "N", "U", "L", "L", " ", "a", "d", "d",
     "r", "e", "s", "s", "\n">>
T_data_indent == <<" ", " ", " ", " ">>
T_data_offset == <<" ", ";", ";", " ">>
T_data_close == <<" ", " ", ")", "\n", "\n">>
T_module_open == <<"(", "m", "o", "d", "u", "l", "e", " ", "$">>
T_import_memory ==
    <<" ", " ", "(", "i", "m", "p", "o", "r", "t", " ", "\"", "e", "n", "v",
     "\"", " ", "\"", "m", "e", "m", "o", "r", "y", "\"", " ", "(", "m", "e",
     "m", "o", "r", "y", " ">>
T_import_memory_close == <<")", ")", "\n">>
T_import_memoryBase ==
    <<" ", " ", "(", "i", "m", "p", "o", "r", "t", " ", "\"", "e", "n", "v",
     "\"", " ", "\"", "m", "e", "m", "o", "r", "y", "B", "a", "s", "e", "\"",
     " ", "(", "g", "l", "o", "b", "a", "l", " ", "$", "m", "e", "m", "o",
     "r", "y", "B", "a", "s", "e", " ", "i", "3", "2", ")", ")", "\n", "\n">>
T_module_close == <<"\n", ")">>
(***************************************************************************)
(* Numbers as text                                                         *)
(***************************************************************************)

DigitChar(d) == <<"0", "1", "2", "3", "4", "5", "6", "7", "8", "9",
                  "a", "b", "c", "d", "e", "f">>[d + 1]

RECURSIVE NatText(_, _)
\* Number.prototype.toString(base) of a natural number
NatText(n, base) ==
    IF n < base THEN <<DigitChar(n)>>
    ELSE Append(NatText(n \div base, base), DigitChar(n % base))

\* String(n) of an integer
NumText(n) == IF n < 0 THEN <<"-">> \o NatText(-n, 10) ELSE NatText(n, 10)

HexDigits ==
    DecDigits \cup {"a", "b", "c", "d", "e", "f", "A", "B", "C", "D", "E", "F"}

HexValue(c) ==
    CASE c \in {"a", "A"} -> 10 [] c \in {"b", "B"} -> 11 [] c \in {"c", "C"} -> 12
      [] c \in {"d", "D"} -> 13 [] c \in {"e", "E"} -> 14 [] c \in {"f", "F"} -> 15
      [] OTHER -> CHOOSE d \in 0..9 : DigitChar(d) = c

RECURSIVE DigitsValue(_, _)
\* the value of a sequence of digits in the given base
DigitsValue(ds, base) ==
    IF ds = <<>> THEN 0
    ELSE DigitsValue(SubSeq(ds, 1, Len(ds) - 1), base) * base + HexValue(ds[Len(ds)])

\* the character codes (String.prototype.charCodeAt, and back) of the
\* characters the modelled string literals are made of
CharCodes ==
    [c \in {"A", "B", "a", "b", "c", "x", " ", "\n"} |->
        CASE c = "A" -> 65 [] c = "B" -> 66 [] c = "a" -> 97 [] c = "b" -> 98
          [] c = "c" -> 99 [] c = "x" -> 120 [] c = " " -> 32 [] c = "\n" -> 10]

(***************************************************************************)
(* token_eval.  A decoded value is [t, s, n]: t = "string" with the        *)
(* characters s, t = "number" with the integer n, or t = "error" for a     *)
(* thrown SyntaxError.  JSON.parse is modelled for string literals and for *)
(* integers; of \u escapes only the character codes of CharCodes are       *)
(* decoded.  The other JSON values (fractions, exponents, true, false,     *)
(* null, other character codes) occur in no modelled input and are given   *)
(* as t = "error".                                                         *)
(***************************************************************************)

JsonError == [t |-> "error", s |-> <<>>, n |-> 0]
JsonString(s) == [t |-> "string", s |-> s, n |-> 0]
JsonNumber(n) == [t |-> "number", s |-> <<>>, n |-> n]
\* the number NaN
JsonNaN == [t |-> "nan", s |-> <<>>, n |-> 0]

RECURSIVE replace_x(_)
\* val.replace(/\\x([0-9A-Fa-f][0-9A-Fa-f])/g, '\\u00$1')
replace_x(s) ==
    IF s = <<>> THEN <<>>
    ELSE IF /\ Len(s) >= 4
            /\ s[1] = "\\" /\ s[2] = "x"
            /\ s[3] \in HexDigits /\ s[4] \in HexDigits
    THEN <<"\\", "u", "0", "0", s[3], s[4]>> \o replace_x(SubSeq(s, 5, Len(s)))
    ELSE <<s[1]>> \o replace_x(Tail(s))

RECURSIVE json_string(_, _, _)
\* the characters of a JSON string literal from index i on, up to the
\* closing quote, which must be the last character
json_string(s, i, acc) ==
    IF i > Len(s) THEN JsonError
    ELSE IF s[i] = "\"" THEN IF i = Len(s) THEN JsonString(acc) ELSE JsonError
    ELSE IF s[i] \in {"\n", "\r", "\t"} THEN JsonError
    ELSE IF s[i] # "\\" THEN json_string(s, i + 1, Append(acc, s[i]))
    ELSE IF i = Len(s) THEN JsonError
    ELSE IF s[i + 1] \in {"\"", "\\", "/"}
         THEN json_string(s, i + 2, Append(acc, s[i + 1]))
    ELSE IF s[i + 1] = "n" THEN json_string(s, i + 2, Append(acc, "\n"))
    ELSE IF s[i + 1] = "t" THEN json_string(s, i + 2, Append(acc, "\t"))
    ELSE IF s[i + 1] = "r" THEN json_string(s, i + 2, Append(acc, "\r"))
    ELSE IF /\ s[i + 1] = "u"
            /\ i + 5 <= Len(s)
            /\ \A k \in (i + 2)..(i + 5) : s[k] \in HexDigits
         THEN LET code == DigitsValue(SubSeq(s, i + 2, i + 5), 16)
                  cs == {c \in DOMAIN CharCodes : CharCodes[c] = code}
              IN  IF cs = {} THEN JsonError
                  ELSE json_string(s, i + 6, Append(acc, CHOOSE c \in cs : TRUE))
    ELSE JsonError

\* JSON.parse of an integer: -?(0|[1-9][0-9]*)
json_number(s) ==
    LET d == IF s[1] = "-" THEN Tail(s) ELSE s
    IN  IF /\ Len(d) > 0
           /\ \A k \in 1..Len(d) : d[k] \in DecDigits
           /\ (d[1] = "0" => Len(d) = 1)
        THEN JsonNumber(IF s[1] = "-" THEN -DigitsValue(d, 10) ELSE DigitsValue(d, 10))
        ELSE JsonError

JSON_parse(s) ==
    IF s = <<>> THEN JsonError
    ELSE IF s[1] = "\"" THEN json_string(s, 2, <<>>)
    ELSE json_number(s)

token_eval(val) == JSON_parse(replace_x(val))

\* parseInt(v) of a decoded value: a number, or the leading decimal integer
\* of a string, or NaN when the string has none
parseInt(v) ==
    IF v.t = "number" THEN v
    ELSE LET neg == v.s # <<>> /\ v.s[1] = "-"
             d == IF v.s # <<>> /\ v.s[1] \in {"-", "+"} THEN Tail(v.s) ELSE v.s
             e == Min({j \in 1..(Len(d) + 1) : j = Len(d) + 1 \/ d[j] \notin DecDigits})
         IN  IF e = 1 THEN JsonNaN
             ELSE JsonNumber(IF neg THEN -DigitsValue(SubSeq(d, 1, e - 1), 10)
                             ELSE DigitsValue(SubSeq(d, 1, e - 1), 10))

(***************************************************************************)
(* The context and JavaScript's "in"                                       *)
(***************************************************************************)

EmptyMap == [k \in {} |-> <<>>]

empty_ctx ==
    [hoist |-> EmptyMap, strings |-> <<>>, string_map |-> EmptyMap,
     modules |-> <<>>]

\* properties every object literal inherits from Object.prototype (the ones
\* the modelled inputs name; all of them are functions)
ObjectPrototypeKeys == {K_constructor, K_toString, K_valueOf, K_hasOwnProperty}

\* key in obj, for an object literal obj
HasProperty(obj, key) == key \in DOMAIN obj \/ key \in ObjectPrototypeKeys

\* String(obj[key]) for a key of HasProperty(obj, key)
PropertyText(obj, key) ==
    IF key \in DOMAIN obj THEN obj[key]
    ELSE T_function
           \o (IF key = K_constructor THEN <<"O", "b", "j", "e", "c", "t">> ELSE key)
           \o T_native_code

\* obj[key] = value
SetProperty(obj, key, value) ==
    [k \in DOMAIN obj \cup {key} |-> IF k = key THEN value ELSE obj[k]]

\* a Slot whose name has lost the counter it ends in
MutSlot(name, v) ==
    [name |-> SubSeq(name, 1, Len(name) - 1), kind |-> v.t, str |-> v.s, num |-> v.n]

\* an entry [name, data] of ctx.strings: data is a string (kind "string",
\* str), a number (kind "number", num) or the number NaN (kind "nan")
Slot(name, v) == [name |-> name, kind |-> v.t, str |-> v.s, num |-> v.n]

\* the property key of a decoded value
KeyText(v) ==
    IF v.t = "number" THEN NumText(v.n)
    ELSE IF v.t = "nan" THEN <<"N", "a", "N">>
    ELSE v.s

(***************************************************************************)
(* Parsing.  A Reader is the pair (tokens, pos); pos is 1-based, so        *)
(* peek() is tokens[pos] and is undefined when pos > Len(tokens).  Every   *)
(* read_* operator returns [ok, node or res, pos]; ok = FALSE stands for a *)
(* thrown Error.  Reader.line is written and never read, and is left out.  *)
(***************************************************************************)

ReadError == [ok |-> FALSE, node |-> NoNode, pos |-> 0]

\* the index of the first token at or after pos that is not whitespace
WhitespaceEnd(tokens, pos) ==
    Min({p \in pos..(Len(tokens) + 1) :
            p = Len(tokens) + 1 \/ ~is_whitespace(tokens[p])})

read_whitespace(tokens, pos) ==
    LET e == WhitespaceEnd(tokens, pos)
    IN  [res |-> [k \in 1..(e - pos) |-> Node("Whitespace", tokens[pos + k - 1])],
         pos |-> e]

read_atom(tokens, pos) ==
    LET token == tokens[pos]
        type == IF token[1] = "$" THEN "Name"
                ELSE IF token[1] = "\"" THEN "Str"
                ELSE IF int_re(token) THEN "Integer"
                ELSE IF float_re(token) THEN "Float"
                ELSE IF is_whitespace(token) THEN "Whitespace"
                ELSE "Literal"
    IN  [ok |-> TRUE, node |-> Node(type, token), pos |-> pos + 1]

RECURSIVE read_form(_, _), read_list(_, _), read_list_items(_, _, _)

\* called with a token at pos; a comment token is returned as it is and is
\* not consumed
read_form(tokens, pos) ==
    LET token == tokens[pos]
    IN  IF StartsWith(token, <<";", ";">>) \/ StartsWith(token, <<"(", ";">>)
        THEN [ok |-> TRUE, node |-> JSString(token), pos |-> pos]
        ELSE IF token = <<")">> THEN ReadError
        ELSE IF token = <<"(">> THEN read_list(tokens, pos)
        ELSE read_atom(tokens, pos)

\* the while loop of read_list, with lst the children read so far
read_list_items(tokens, pos, lst) ==
    IF pos <= Len(tokens) /\ tokens[pos] = <<")">>
    THEN [ok |-> TRUE, node |-> Node("List", lst), pos |-> pos]
    ELSE IF pos > Len(tokens)
    THEN ReadError
    ELSE LET f == read_form(tokens, pos)
         IN  IF ~f.ok THEN ReadError
             ELSE LET w == read_whitespace(tokens, f.pos)
                  IN  read_list_items(tokens, w.pos, lst \o <<f.node>> \o w.res)

\* the token after the leading whitespace is consumed as the opening
\* bracket whatever it is
read_list(tokens, pos) ==
    LET ws_start == read_whitespace(tokens, pos)
        items == read_list_items(tokens, ws_start.pos + 1, <<>>)
    IN  IF ~items.ok THEN ReadError
        ELSE LET ws_end == read_whitespace(tokens, items.pos + 1)
             IN  [ok |-> TRUE,
                  node |-> surround(items.node, ws_start.res, ws_end.res),
                  pos |-> ws_end.pos]

read_str(str) ==
    LET tokens == tokenize(str)
    IN  IF Len(tokens) = 0 THEN ReadError ELSE read_list(tokens, 1)

(***************************************************************************)
(* emit.  wam_emit returns [ok, toks, modules]: the tokens, and            *)
(* ctx.modules after the pushes of the module branch; ok = FALSE stands    *)
(* for a thrown TypeError or Error.                                        *)
(***************************************************************************)

\* String(x) of a child node or comment string inside an Array
ObjectText(n) ==
    IF n.type = "JSString" THEN n.val
    ELSE <<"[", "o", "b", "j", "e", "c", "t", " ", "O", "b", "j", "e", "c", "t", "]">>

RECURSIVE JoinWith(_, _)
\* Array.prototype.join(sep)
JoinWith(ss, sep) ==
    IF ss = <<>> THEN <<>>
    ELSE IF Len(ss) = 1 THEN ss[1]
    ELSE ss[1] \o sep \o JoinWith(Tail(ss), sep)

\* ast.words()[1].val.slice(1), as the text a template or join makes of it
ModuleName(w) ==
    IF IsList(w)
    THEN JoinWith([k \in 1..(Len(w.val) - 1) |-> ObjectText(w.val[k + 1])], <<",">>)
    ELSE Tail(w.val)

EmitError == [ok |-> FALSE, toks |-> <<>>, modules |-> <<>>]

RECURSIVE wam_emit(_, _), emit_trivia(_, _), emit_module_items(_, _, _),
          emit_list_items(_, _)

\* for (let a of nodes) { toks.push(...wam_emit(a, ctx)) }
emit_trivia(nodes, e) ==
    IF ~e.ok \/ nodes = <<>> THEN e
    ELSE LET r == wam_emit(Head(nodes), e.modules)
         IN  IF ~r.ok THEN EmitError
             ELSE emit_trivia(Tail(nodes),
                              [ok |-> TRUE, toks |-> e.toks \o r.toks,
                               modules |-> r.modules])

\* the loop of the module branch: "module" and the module name are skipped
\* up to the first List child
emit_module_items(items, mode, e) ==
    IF ~e.ok \/ items = <<>> THEN e
    ELSE LET a == Head(items)
             mode2 == IF mode = "skip" /\ a.type \in {"List", "Splice"}
                      THEN "continue" ELSE mode
             skipped == /\ mode2 = "skip"
                        /\ \/ a.type = "Literal" /\ a.val = K_module
                           \/ a.type = "Name"
         IN  IF skipped THEN emit_module_items(Tail(items), mode2, e)
             ELSE LET r == wam_emit(a, e.modules)
                  IN  IF ~r.ok THEN EmitError
                      ELSE emit_module_items(Tail(items), mode2,
                               [ok |-> TRUE, toks |-> e.toks \o r.toks,
                                modules |-> r.modules])

\* the loop of the plain list branch: a space is pushed between two items
\* when neither side is whitespace
emit_list_items(items, e) ==
    IF ~e.ok \/ items = <<>> THEN e
    ELSE LET r == wam_emit(Head(items), e.modules)
         IN  IF ~r.ok THEN EmitError
             ELSE LET last == e.toks[Len(e.toks)]
                      sep == IF /\ last # <<"(">>
                                /\ ~is_whitespace(last)
                                /\ ~(r.toks # <<>> /\ is_whitespace(r.toks[1]))
                             THEN <<<<" ">>>> ELSE <<>>
                  IN  emit_list_items(Tail(items),
                          [ok |-> TRUE, toks |-> e.toks \o sep \o r.toks,
                           modules |-> r.modules])

wam_emit(ast, modules) ==
    IF ast.type = "JSString" THEN EmitError
    ELSE
    LET e0 == emit_trivia(ast.start, [ok |-> TRUE, toks |-> <<>>, modules |-> modules])
        ws == IF IsList(ast) THEN words(ast.val) ELSE <<>>
        e1 == IF ~e0.ok THEN EmitError
              ELSE IF IsList(ast)
              THEN IF Len(ws) > 1 /\ IsAtom(ws[1]) /\ ws[1].val = K_module
                   THEN IF ws[2].type = "JSString" THEN EmitError
                        ELSE LET mname == ModuleName(ws[2])
                             IN  emit_module_items(ast.val, "skip",
                                   [ok |-> TRUE,
                                    toks |-> e0.toks \o
                                       <<<<";", ";", " ">> \o K_module \o <<" ", "$">>
                                          \o mname \o <<"\n">>>>,
                                    modules |-> Append(e0.modules, mname)])
                   ELSE LET r == emit_list_items(ast.val,
                                   [ok |-> TRUE, toks |-> Append(e0.toks, <<"(">>),
                                    modules |-> e0.modules])
                        IN  IF ~r.ok THEN EmitError
                            ELSE [r EXCEPT !.toks = Append(r.toks, <<")">>)]
              ELSE IF IsAtom(ast)
              THEN [e0 EXCEPT !.toks = Append(e0.toks, ast.val)]
              ELSE EmitError
    IN  emit_trivia(ast.end, e1)

(***************************************************************************)
(* eval / macro expansion.  The context is threaded as st = [ctx, ok, log] *)
(* through every call: ok = FALSE stands for a thrown Error (a failed      *)
(* assert, a SyntaxError of JSON.parse, a TypeError), which ends the run,  *)
(* and log is the history of the address expressions STRING and            *)
(* STATIC_ARRAY returned, kept for the properties only.  An operator that  *)
(* evaluates returns [node, st].                                           *)
(***************************************************************************)

Return(node, st) == [node |-> node, st |-> st]
Throw(st) == [node |-> NoNode, st |-> [st EXCEPT !.ok = FALSE]]

\* nth_word, with 1-based child indices: [tok_idx, a] is [idx, node], and
\* found = FALSE stands for a = null
nth_word(tokens, nth) ==
    LET n == IF nth < 0 THEN Len(words(tokens)) + nth ELSE nth
        at == {i \in 1..Len(tokens) :
                  /\ tokens[i].type # "Whitespace"
                  /\ Len(words(SubSeq(tokens, 1, i - 1))) = n}
    IN  IF at # {}
        THEN [idx |-> Min(at), found |-> TRUE, node |-> tokens[Min(at)]]
        ELSE [idx |-> Len(tokens), found |-> FALSE, node |-> NoNode]

Reverse(s) == [k \in 1..Len(s) |-> s[Len(s) + 1 - k]]

\* new List([new Literal('i32.const'), new Integer(n)]); the number n is
\* held as the text String(n) that wam_emit makes of it
ConstForm(n) == Node("List", <<Node("Literal", K_i32_const), Node("Integer", n)>>)

ResultI32 == Node("List", <<Node("Literal", K_result), Node("Literal", K_i32)>>)

\* the if form AND builds around the evaluated condition a
MutAND_step(a, res) ==
    Node("List", <<Node("Literal", K_if), ResultI32, a, ConstForm(<<"0">>), res>>)
AND_step(a, res) ==
    Node("List", <<Node("Literal", K_if), ResultI32, a, res, ConstForm(<<"0">>)>>)

\* the if form OR builds around the evaluated condition a
OR_step(a, res) ==
    Node("List", <<Node("Literal", K_if), ResultI32, a, ConstForm(<<"1">>), res>>)

\* the address expression STRING and STATIC_ARRAY return
AddressForm(sname) == read_str(T_addr_open \o sname \o T_addr_close)

EVAL_HOIST == {K_import, K_global, K_table}
EVAL_NONE == {K_memory, K_import, K_export, K_type, K_get_global, K_local,
              K_get_local, K_param, K_br, K_i32_const, K_i64_const,
              K_f32_const, K_f64_const}
EVAL_REST == {K_module, K_func, K_memory, K_call, K_set_local, K_set_global,
              K_block, K_loop, K_br_if}
EVAL_LAST == {K_global, K_br_table}

macros == {K_AND, K_OR, K_CHR, K_STRING, K_STATIC_ARRAY, K_LET, K_param, K_local}

\* a0.val in macros
IsMacroName(v) == v \in macros \/ v \in ObjectPrototypeKeys

RECURSIVE wam_eval(_, _), eval_each(_, _)

\* nodes.map(e => wam_eval(e, ctx)); returns [nodes, st]
eval_each(nodes, st) ==
    IF nodes = <<>> THEN [nodes |-> <<>>, st |-> st]
    ELSE LET after(r, rest) == [nodes |-> <<r.node>> \o rest.nodes, st |-> rest.st]
             first(r) == IF ~r.st.ok THEN [nodes |-> <<>>, st |-> r.st]
                         ELSE after(r, eval_each(Tail(nodes), r.st))
         IN  first(wam_eval(Head(nodes), st))

RECURSIVE AND_loop(_, _), OR_loop(_, _)
\* the for loop of AND over the conditions already evaluated, in the order
\* the loop takes them
AND_loop(rest, res) ==
    IF rest = <<>> THEN res
    ELSE AND_loop(Tail(rest), AND_step(Head(rest), res))

\* the conditions are evaluated in the order of args.slice(1).reverse()
AND(args, st) ==
    IF ~(Len(args) - 1 > 0) THEN Throw(st)
    ELSE LET loop(r) == IF ~r.st.ok THEN Throw(r.st)
                        ELSE Return(AND_loop(r.nodes, ConstForm(<<"1">>)), r.st)
         IN  loop(eval_each(Reverse(Tail(args)), st))

\* the for loop of OR over the conditions already evaluated
OR_loop(rest, res) ==
    IF rest = <<>> THEN res
    ELSE OR_loop(Tail(rest), OR_step(Head(rest), res))

OR(args, st) ==
    IF ~(Len(args) - 1 > 0) THEN Throw(st)
    ELSE LET loop(r) == IF ~r.st.ok THEN Throw(r.st)
                        ELSE Return(OR_loop(r.nodes, ConstForm(<<"0">>)), r.st)
         IN  loop(eval_each(Reverse(Tail(args)), st))

CHR(args, st) ==
    IF ~(Len(args) - 1 = 1) \/ ~IsAtom(args[2]) THEN Throw(st)
    ELSE LET arg1 == args[2].val
             read(r) == IF r.ok THEN Return(r.node, st) ELSE Throw(st)
             chr(c) ==
                 IF c.t = "error" THEN Throw(st)
                 ELSE IF c.t # "string" \/ Len(c.s) # 1 THEN Throw(st)
                 ELSE read(read_str(T_chr_open \o NatText(CharCodes[c.s[1]], 16)
                                      \o T_chr_comment \o arg1 \o T_chr_close))
         IN  chr(token_eval(arg1))

\* the body of STRING once its argument is decoded to s
STRING_value(s, st) ==
    LET address(key, ctx2, r) ==
            IF ~r.ok THEN Throw(st)
            ELSE Return(r.node,
                        [st EXCEPT !.ctx = ctx2,
                                   !.log = Append(@, [macro |-> "STRING", key |-> key,
                                                      ret |-> r.node])])
        named(key, dup, sname) ==
            address(key,
                    IF dup THEN st.ctx
                    ELSE [st.ctx EXCEPT
                            !.strings = Append(@, Slot(sname, s)),
                            !.string_map = SetProperty(@, key, sname)],
                    AddressForm(sname))
        keyed(key, dup) ==
            named(key, dup,
                  IF dup THEN PropertyText(st.ctx.string_map, key)
                  ELSE T_S_STRING \o NumText(Len(st.ctx.strings)))
        mapped(key) == keyed(key, HasProperty(st.ctx.string_map, key))
    IN  mapped(KeyText(s))

STRING_macro(args, st) ==
    IF ~(Len(args) - 1 = 1) \/ ~IsAtom(args[2]) THEN Throw(st)
    ELSE LET string(s) == IF s.t = "error" THEN Throw(st) ELSE STRING_value(s, st)
         IN  string(token_eval(args[2].val))

STATIC_ARRAY(args, st) ==
    IF ~(Len(args) - 1 = 1) \/ ~IsAtom(args[2]) THEN Throw(st)
    ELSE LET address(slen, sname, r) ==
                 IF slen.t = "error" \/ ~r.ok THEN Throw(st)
                 ELSE Return(r.node,
                             [st EXCEPT
                                !.ctx.strings = Append(@, Slot(sname, slen)),
                                !.log = Append(@, [macro |-> "STATIC_ARRAY",
                                                   key |-> KeyText(slen),
                                                   ret |-> r.node])])
             named(slen, sname) == address(slen, sname, AddressForm(sname))
             sized(v) == named(IF v.t = "error" THEN v ELSE parseInt(v),
                               T_S_STATIC_ARRAY \o NumText(Len(st.ctx.strings)))
         IN  sized(token_eval(args[2].val))

\* a LET_result that pairs each declaration with its assignment
MutLET_result(locals, sets) ==
    Node("Splice", [k \in 1..(2 * Len(locals)) |->
                       IF k % 2 = 1 THEN locals[(k + 1) \div 2] ELSE sets[k \div 2]])

\* the forms LET returns, from the declarations and assignments collected
\* (the figure of locals.concat(sets))
LET_result(locals, sets) == Node("Splice", locals \o sets)

\* the for loop of LET over the pairs: inits[k] is the evaluated
\* initializer of the name args[2 * k]
LET_loop(args, inits) ==
    LET_result(
        [k \in 1..Len(inits) |->
            Node("List", <<Node("Literal", K_local), args[2 * k],
                           Node("Literal", K_i32)>>)],
        [k \in 1..Len(inits) |->
            Node("List", <<Node("Literal", K_set_local), args[2 * k],
                           surround(inits[k], <<>>, <<>>)>>)])

\* the initializers are evaluated in order; res.surround throws for the
\* first one that is a bare string (a comment token read_form returned),
\* and the ones after it are not evaluated
LET_macro(args, st) ==
    IF ~(Len(args) - 1 >= 2) \/ ~((Len(args) - 1) % 2 = 0) THEN Throw(st)
    ELSE LET pairs == (Len(args) - 1) \div 2
             bare == {k \in 1..pairs : args[2 * k + 1].type = "JSString"}
             upto == IF bare = {} THEN pairs ELSE Min(bare)
             loop(r) == IF ~r.st.ok \/ bare # {} THEN Throw(r.st)
                        ELSE Return(LET_loop(args, r.nodes), r.st)
         IN  loop(eval_each([k \in 1..upto |-> args[2 * k + 1]], st))

param_local(args, st) ==
    LET kind == args[1].val
    IN  IF ~(Len(args) - 1 >= 2) \/ ~((Len(args) - 1) % 2 = 0) THEN Throw(st)
        ELSE Return(Node("Splice",
                        [k \in 1..((Len(args) - 1) \div 2) |->
                            Node("List", <<Node("Literal", kind), args[2 * k],
                                           args[2 * k + 1]>>)]),
                    st)

\* macros[name](args, ctx); a name that is no own property of macros gives
\* undefined or a built-in of Object.prototype, and the call or the
\* surround that follows throws
call_macro(name, args, st) ==
    CASE name = K_AND -> AND(args, st)
      [] name = K_OR -> OR(args, st)
      [] name = K_CHR -> CHR(args, st)
      [] name = K_STRING -> STRING_macro(args, st)
      [] name = K_STATIC_ARRAY -> STATIC_ARRAY(args, st)
      [] name = K_LET -> LET_macro(args, st)
      [] name \in {K_param, K_local} -> param_local(args, st)
      [] OTHER -> Throw(st)

RECURSIVE splice_in(_)
\* the loop that builds res_lst: the items of a Splice are pushed in its place
splice_in(lst) ==
    IF lst = <<>> THEN <<>>
    ELSE (IF Head(lst).type = "Splice" THEN Head(lst).val ELSE <<Head(lst)>>)
            \o splice_in(Tail(lst))

\* ast.set(idx, wam_eval(a, ctx)) for the last word; returns [node, st]
eval_last_word(ast, st) ==
    LET set(w, r) == IF ~r.st.ok THEN Throw(r.st)
                     ELSE Return([ast EXCEPT !.val[w.idx] = r.nodes[1]], r.st)
        last(w) == set(w, eval_each(<<w.node>>, st))
    IN  last(nth_word(ast.val, -1))

\* the text of the placeholder a hoisted form leaves behind
hoist_comment(ast) ==
    LET ws == words(ast.val)
        first3 == SubSeq(ws, 1, IF Len(ws) < 3 THEN Len(ws) ELSE 3)
        comment_toks == SelectSeq(first3, LAMBDA a : ~IsList(a))
    IN  T_hoisted_open
          \o JoinWith([k \in 1..Len(comment_toks) |-> comment_toks[k].val], <<" ">>)
          \o T_comment_close

\* ctx.hoist[kind].push(ast), after the bucket is made if it is missing
MutHoistPush(hoist, kind, ast) ==
    SetProperty(hoist, kind,
                <<ast>> \o (IF HasProperty(hoist, kind) THEN hoist[kind] ELSE <<>>))
HoistPush(hoist, kind, ast) ==
    SetProperty(hoist, kind,
                Append(IF HasProperty(hoist, kind) THEN hoist[kind] ELSE <<>>, ast))

wam_eval(ast, st) ==
    IF IsList(ast) THEN
        LET \* new List(res_lst) of the items kept and the results r, spliced
            listed(kept, r) ==
                IF ~r.st.ok THEN Throw(r.st)
                ELSE Return(surround(Node("List", splice_in(kept \o r.nodes)),
                                     ast.start, ast.end),
                            r.st)
            expanded(r) ==
                IF ~r.st.ok THEN r
                ELSE IF r.node.type = "Splice"
                THEN Return([r.node EXCEPT !.val =
                                [k \in 1..Len(r.node.val) |->
                                    surround(r.node.val[k], ast.start, ast.end)]],
                            r.st)
                ELSE Return(surround(r.node, ast.start, ast.end), r.st)
            hoisted(r) ==
                IF ~r.st.ok THEN r
                ELSE Return(surround(Node("Whitespace", hoist_comment(r.node)),
                                     ast.start, ast.end),
                            [r.st EXCEPT !.ctx.hoist =
                                HoistPush(@, words(r.node.val)[1].val,
                                          surround(r.node,
                                                   <<Node("Whitespace", <<" ", " ">>)>>,
                                                   <<Node("Whitespace", <<"\n">>)>>))])
            rest(w) ==
                listed(SubSeq(ast.val, 1, w.idx - 1),
                       eval_each(SubSeq(ast.val, w.idx, Len(ast.val)), st))
            rest_after(w1) ==
                rest(IF w1.found /\ w1.node.type = "Name"
                     THEN nth_word(ast.val, 2) ELSE w1)
            form(h) ==
                LET a0idx == h.idx
                    a0 == h.node
                    isLit == h.found /\ a0.type = "Literal"
                IN  IF h.found /\ a0.type = "Name" THEN
                        listed(<<Node("Literal", K_call), a0>>,
                               eval_each(SubSeq(ast.val, a0idx + 1, Len(ast.val)), st))
                    ELSE IF isLit /\ IsMacroName(a0.val) THEN
                        expanded(IF IsAtom(ast.val[1])
                                 THEN call_macro(ast.val[1].val,
                                                 SubSeq(words(ast.val), a0idx,
                                                        Len(words(ast.val))),
                                                 st)
                                 ELSE Throw(st))
                    ELSE IF isLit /\ a0.val \in EVAL_HOIST THEN
                        hoisted(IF a0.val \in EVAL_LAST THEN eval_last_word(ast, st)
                                ELSE Return(ast, st))
                    ELSE IF isLit /\ a0.val \in EVAL_NONE THEN Return(ast, st)
                    ELSE IF isLit /\ a0.val \in EVAL_REST THEN
                        rest_after(nth_word(ast.val, 1))
                    ELSE IF isLit /\ a0.val \in EVAL_LAST THEN eval_last_word(ast, st)
                    ELSE listed(<<>>, eval_each(ast.val, st))
        IN  form(nth_word(ast.val, 0))
    ELSE IF ast.type = "Str" THEN
        STRING_macro(<<NoNode, ast>>, st)
    ELSE IF ast.type = "Integer" THEN
        Return(Node("List", <<Node("Literal", K_i32_const), ast>>), st)
    ELSE IF ast.type = "Float" THEN
        Return(Node("List", <<Node("Literal", K_f32_const), ast>>), st)
    ELSE IF ast.type = "Name" THEN
        Return(Node("List", <<Node("Literal", K_get_local), ast>>), st)
    ELSE Return(ast, st)

(***************************************************************************)
(* emit_module                                                             *)
(***************************************************************************)

\* opts.memorySize
MemorySize == 256

EMIT_HOIST_ORDER == <<K_import, K_global, K_table>>

RECURSIVE _escape(_)
_escape(s) ==
    IF s = <<>> THEN <<>>
    ELSE (CASE Head(s) = "\\" -> <<"\\", "\\">>
            [] Head(s) = "\"" -> <<"\\", "\"">>
            [] Head(s) = "\n" -> <<"\\", "n">>
            [] Head(s) = "\\00" -> <<"\\", "0", "0">>
            [] OTHER -> <<Head(s)>>) \o _escape(Tail(s))

\* String.prototype.padEnd(n)
padEnd(s, n) == s \o [k \in 1..(n - Len(s)) |-> " "]

\* "\x00".repeat(n), the NUL character written "\\00"
Zeros(n) == [k \in 1..n |-> "\\00"]

\* a GlobalSlen that leaves the terminator byte out
MutGlobalSlen(slot) == IF slot.kind = "number" THEN slot.num ELSE Len(slot.str)

\* slen in the loop that writes the symbol globals (of a slot that is not
\* NaN)
GlobalSlen(slot) == IF slot.kind = "number" THEN slot.num + 1 ELSE Len(slot.str) + 1

\* a SlotData that writes one zero byte too many for an array
MutSlotData(slot) ==
    IF slot.kind = "number" THEN Zeros(slot.num + 1)
    ELSE IF slot.kind = "nan" THEN <<>>
    ELSE slot.str

\* sdata in the loop that writes the data blob; "\x00".repeat(NaN) is ""
SlotData(slot) ==
    IF slot.kind = "number" THEN Zeros(slot.num)
    ELSE IF slot.kind = "nan" THEN <<>>
    ELSE slot.str

\* the text of string_offset in the first loop: NaN once a NaN was added
OffsetText(string_offset, nan) ==
    IF nan THEN <<"N", "a", "N">> ELSE NumText(string_offset)

RECURSIVE GlobalTokens(_, _, _)
\* the first loop over strings, from string_offset on, closed by the
\* $S_STRING_END global
GlobalTokens(strings, string_offset, nan) ==
    IF strings = <<>>
    THEN <<T_string_end \o OffsetText(string_offset, nan) \o T_string_end_close>>
    ELSE <<T_global_open \o Head(strings).name \o T_global_mid
             \o OffsetText(string_offset, nan) \o T_global_close>>
           \o (IF nan \/ Head(strings).kind = "nan"
               THEN GlobalTokens(Tail(strings), string_offset, TRUE)
               ELSE GlobalTokens(Tail(strings),
                                 string_offset + GlobalSlen(Head(strings)), FALSE))

\* one line of the data blob
DataLine(slot, string_offset) ==
    T_data_indent \o <<"\"">>
        \o padEnd(_escape(SlotData(slot)) \o <<"\\", "0", "0", "\"">>, 29)
        \o T_data_offset \o NumText(string_offset) \o <<"\n">>

RECURSIVE DataTokens(_, _)
\* the second loop over strings, from string_offset on
DataTokens(strings, string_offset) ==
    IF strings = <<>> THEN <<>>
    ELSE <<DataLine(Head(strings), string_offset)>>
           \o DataTokens(Tail(strings),
                         string_offset + (Len(SlotData(Head(strings))) + 1))

string_tokens(strings) ==
    GlobalTokens(strings, 4, FALSE) \o <<T_data_open, T_data_null>>
        \o DataTokens(strings, 4) \o <<T_data_close>>

RECURSIVE emit_each(_, _)
\* nodes.map(a => wam_emit(a, ctx)), flattened; e is [ok, toks, modules]
emit_each(nodes, e) ==
    IF ~e.ok \/ nodes = <<>> THEN e
    ELSE LET r == wam_emit(Head(nodes), e.modules)
         IN  IF ~r.ok THEN EmitError
             ELSE emit_each(Tail(nodes),
                            [ok |-> TRUE, toks |-> e.toks \o r.toks,
                             modules |-> r.modules])

RECURSIVE hoist_tokens(_, _, _)
\* the loop over EMIT_HOIST_ORDER
hoist_tokens(kinds, hoist, e) ==
    IF ~e.ok \/ kinds = <<>> THEN e
    ELSE IF Head(kinds) \notin DOMAIN hoist THEN hoist_tokens(Tail(kinds), hoist, e)
    ELSE hoist_tokens(Tail(kinds), hoist, emit_each(hoist[Head(kinds)], e))

\* returns [ok, text, modules]; ok = FALSE stands for a thrown Error
\* (wam_emit's, or the RangeError of repeat for a negative array length)
emit_module(asts_, ctx_) ==
    LET mod == emit_each(asts_, [ok |-> TRUE, toks |-> <<>>, modules |-> ctx_.modules])
        hst == hoist_tokens(EMIT_HOIST_ORDER, ctx_.hoist,
                            [ok |-> mod.ok, toks |-> <<>>, modules |-> mod.modules])
        negative == \E k \in 1..Len(ctx_.strings) :
                       ctx_.strings[k].kind = "number" /\ ctx_.strings[k].num < 0
    IN  IF negative \/ ~mod.ok \/ ~hst.ok
        THEN [ok |-> FALSE, text |-> <<>>, modules |-> ctx_.modules]
        ELSE [ok |-> TRUE,
              text |-> Concat(
                  <<T_module_open \o JoinWith(hst.modules, <<"_", "_">>) \o <<"\n", "\n">>,
                    T_import_memory \o NumText(MemorySize) \o T_import_memory_close,
                    T_import_memoryBase>>
                  \o hst.toks \o <<<<"\n">>>>
                  \o string_tokens(ctx_.strings) \o <<<<"\n">>>>
                  \o mod.toks \o <<T_module_close>>),
              modules |-> hst.modules]

(***************************************************************************)
(* Input texts                                                             *)
(***************************************************************************)

\* the longest text of the character-level corpus
MaxLen == 5

\* the characters of the character-level corpus
Alphabet == {"(", ")", " ", "w", ";", ","}

RECURSIVE TextsOfLen(_)
TextsOfLen(n) ==
    IF n = 0 THEN {<<>>}
    ELSE {Append(t, c) : t \in TextsOfLen(n - 1), c \in Alphabet}

CharTexts == UNION {TextsOfLen(n) : n \in 0..MaxLen}

\* the most input files of one run
MaxFiles == 2

\* source fragments of the corpus of string literals and static arrays
X_open_call == <<"(", "c", "a", "l", "l", " ", "$", "f", " ">>
X_str_a == <<"\"", "a", "\"">>
X_str_b == <<"\"", "b", "\"">>
X_str_x61 == <<"\"", "\\", "x", "6", "1", "\"">>
X_str_toString == <<"\"", "t", "o", "S", "t", "r", "i", "n", "g", "\"">>
X_STRING_a == <<"(", "S", "T", "R", "I", "N", "G", " ", "\"", "a", "\"", ")">>
X_STATIC_ARRAY_2 ==
    <<"(", "S", "T", "A", "T", "I", "C", "_", "A", "R", "R", "A", "Y", " ",
     "2", ")">>
X_STATIC_ARRAY_0 ==
    <<"(", "S", "T", "A", "T", "I", "C", "_", "A", "R", "R", "A", "Y", " ",
     "0", ")">>
X_STATIC_ARRAY_2_4 ==
    <<"(", "S", "T", "A", "T", "I", "C", "_", "A", "R", "R", "A", "Y", " ",
     "2", " ", "4", ")">>
X_two_a ==
    <<"(", "c", "a", "l", "l", " ", "$", "f", " ", "\"", "a", "\"", " ",
     "\"", "a", "\"", ")">>
X_array_twice ==
    <<"(", "$", "f", " ", "(", "S", "T", "A", "T", "I", "C", "_", "A", "R",
     "R", "A", "Y", " ", "2", ")", " ", "\"", "b", "\"", " ", "(", "S", "T",
     "A", "T", "I", "C", "_", "A", "R", "R", "A", "Y", " ", "2", ")", ")">>
X_nop == <<"(", "n", "o", "p", ")">>
X_string_quote ==
    <<"(", "c", "a", "l", "l", " ", "$", "f", " ", "\"", "a", "\\", "\"",
     "\\", "n", "\"", ")">>

StringItems ==
    {X_str_a, X_str_b, X_str_x61, X_str_toString, X_STRING_a,
     X_STATIC_ARRAY_2, X_STATIC_ARRAY_0, X_STATIC_ARRAY_2_4}

\* one call form around one item, and a few forms holding several items
StringTexts ==
    {X_open_call \o item \o <<")">> : item \in StringItems}
        \cup {X_nop, X_STATIC_ARRAY_2, X_two_a, X_array_twice, X_string_quote}

\* the most conditions of one AND or OR form of the corpus
MaxConds == 3

RECURSIVE Tuples(_, _)
\* the sequences of n elements of S
Tuples(S, n) ==
    IF n = 0 THEN {<<>>}
    ELSE {Append(t, x) : t \in Tuples(S, n - 1), x \in S}

\* source fragments of the corpus of AND and OR forms
X_AND_open == <<"(", "A", "N", "D">>
X_OR_open == <<"(", "O", "R">>
X_name_a == <<"$", "a">>
X_name_b == <<"$", "b">>
X_zero == <<"0">>
X_seven == <<"7">>
X_OR_b_zero == <<"(", "O", "R", " ", "$", "b", " ", "0", ")">>

LogicConds == {X_name_a, X_name_b, X_zero, X_seven, X_OR_b_zero}

\* the words, each after one space
Spaced(ws) == Concat([k \in 1..Len(ws) |-> <<" ">> \o ws[k]])

\* AND and OR forms of 1..MaxConds conditions
LogicTexts ==
    {open \o Spaced(cs) \o <<")">> :
        open \in {X_AND_open, X_OR_open},
        cs \in UNION {Tuples(LogicConds, n) : n \in 1..MaxConds}}

\* the most forms of the modules of one run of the corpus of modules
MaxForms == 3

\* source fragments of the corpus of modules with forms that are hoisted
X_module_m == <<"(", "m", "o", "d", "u", "l", "e", " ", "$", "m">>
H_import_f ==
    <<"(", "i", "m", "p", "o", "r", "t", " ", "\"", "e", "\"", " ", "\"",
     "f", "\"", ")">>
H_import_g ==
    <<"(", "i", "m", "p", "o", "r", "t", " ", "\"", "e", "\"", " ", "\"",
     "g", "\"", ")">>
H_global ==
    <<"(", "g", "l", "o", "b", "a", "l", " ", "$", "g", " ", "i", "3", "2",
     " ", "(", "i", "3", "2", ".", "c", "o", "n", "s", "t", " ", "5", ")",
     ")">>
H_table ==
    <<"(", "t", "a", "b", "l", "e", " ", "0", " ", "a", "n", "y", "f", "u",
     "n", "c", ")">>
H_func ==
    <<"(", "f", "u", "n", "c", " ", "$", "f", " ", "(", "n", "o", "p", ")",
     ")">>

ModuleForms == {H_import_f, H_import_g, H_global, H_table, H_func}

\* the modules of 1..n forms
HoistTexts(n) ==
    {X_module_m \o Spaced(fs) \o <<")">> :
        fs \in UNION {Tuples(ModuleForms, j) : j \in 1..n}}

\* the forms of a module text, after its name
FormsIn(text) == Len(words(read_str(text).node.val)) - 2

RECURSIVE FormsRead(_)
FormsRead(texts) ==
    IF texts = <<>> THEN 0 ELSE FormsIn(Head(texts)) + FormsRead(Tail(texts))

\* the most name/initializer pairs of one LET form of the corpus
MaxPairs == 2

\* source fragments of the corpus of LET forms
X_LET_open == <<"(", "L", "E", "T">>
X_name_i == <<"$", "i">>
X_name_j == <<"$", "j">>
X_add_i_1 ==
    <<"(", "i", "3", "2", ".", "a", "d", "d", " ", "$", "i", " ", "1", ")">>
X_func_open == <<"(", "f", "u", "n", "c", " ", "$", "f", " ">>
X_nop_close == <<" ", "(", "n", "o", "p", ")", ")">>
X_block_open == <<"(", "b", "l", "o", "c", "k", " ">>
X_call_open == <<"(", "$", "f", " ">>
X_then_open == <<"(", "t", "h", "e", "n", " ", "(", "n", "o", "p", ")", " ">>

LetPairs == {<<name, init>> : name \in {X_name_i, X_name_j},
                              init \in {X_seven, X_name_i, X_add_i_1}}

\* LET forms of 1..MaxPairs pairs, and LET forms with no argument, one
\* argument and three arguments
LetForms ==
    {X_LET_open \o Spaced(args) \o <<")">> :
        args \in {Concat(ps) : ps \in UNION {Tuples(LetPairs, n) : n \in 1..MaxPairs}}
                    \cup {<<>>, <<X_name_i>>, <<X_name_i, X_seven, X_name_j>>}}

\* the text around a LET form: none, or a parent list
LetParents ==
    {<<<<>>, <<>>>>, <<X_func_open, X_nop_close>>, <<X_block_open, <<")">>>>,
     <<X_call_open, <<")">>>>, <<X_then_open, <<")">>>>}

LetTexts == {parent[1] \o form \o parent[2] : form \in LetForms, parent \in LetParents}

\* source fragments of the corpus of modules to merge: the opener, and the
\* bodies
X_module_open == <<"(", "m", "o", "d", "u", "l", "e", " ", "$">>
B_func ==
    <<" ", "(", "f", "u", "n", "c", " ", "$", "f", " ", "(", "n", "o", "p",
     ")", ")">>
B_func_lines ==
    <<"\n", " ", " ", "(", "f", "u", "n", "c", " ", "$", "g", " ", "(", "n",
     "o", "p", ")", ")", "\n">>
B_memory_func ==
    <<" ", "(", "m", "e", "m", "o", "r", "y", " ", "1", ")", " ", "(", "f",
     "u", "n", "c", " ", "$", "f", " ", "(", "n", "o", "p", ")", ")">>

ModuleBodies == {<<>>, B_func, B_func_lines, B_memory_func}

\* modules named $a and $b, with every body
ModuleTexts ==
    {X_module_open \o name \o body \o <<")">> :
        name \in {<<"a">>, <<"b">>}, body \in ModuleBodies}

\* the words of the forms of the corpus of whitespace and comments, and
\* the fragments put between two of their words
W_AND ==
    <<<<"(", "A", "N", "D">>, <<"$", "a">>, <<"$", "b", ")">>>>
W_OR ==
    <<<<"(", "O", "R">>, <<"$", "a">>, <<"$", "b", ")">>>>
W_LET ==
    <<<<"(", "L", "E", "T">>, <<"$", "i">>, <<"7", ")">>>>
W_param ==
    <<<<"(", "p", "a", "r", "a", "m">>, <<"$", "a">>, <<"i", "3", "2">>,
    <<"$", "b">>, <<"i", "3", "2", ")">>>>
W_local ==
    <<<<"(", "l", "o", "c", "a", "l">>, <<"$", "a">>, <<"i", "3", "2">>,
    <<"$", "b">>, <<"i", "3", "2", ")">>>>
W_add ==
    <<<<"(", "i", "3", "2", ".", "a", "d", "d">>, <<"$", "a">>, <<"$", "b",
    ")">>>>
W_block ==
    <<<<"(", "b", "l", "o", "c", "k">>, <<"(", "n", "o", "p", ")">>, <<"(",
    "n", "o", "p", ")", ")">>>>
G_block_comment == <<" ", "(", ";", " ", "c", " ", ";", ")", " ">>
G_line_comment == <<"\n", " ", " ", ";", ";", " ", "c", "\n", " ", " ">>
G_spaces == <<" ", " ", " ">>

TriviaForms == {W_AND, W_OR, W_LET, W_param, W_local, W_add, W_block}
TriviaGaps == {G_block_comment, G_line_comment, G_spaces}

\* the words with the gap after word g and one space after the others
Gapped(ws, g, gap) ==
    Concat([k \in 1..Len(ws) |->
               ws[k] \o (IF k = Len(ws) THEN <<>> ELSE IF k = g THEN gap ELSE <<" ">>)])

\* every form with every gap at every place, inside a func form
TriviaTexts ==
    UNION {{X_func_open \o Gapped(ws, g, gap) \o <<")">> :
               g \in 1..(Len(ws) - 1), gap \in TriviaGaps} : ws \in TriviaForms}

\* the heads of the corpus of forms that start with their own name, and
\* what follows the name in them
SkipHeads ==
    {K_module, K_func, K_call, K_set_local, K_set_global, K_block, K_loop, K_br_if}
SkipTails ==
    {<<>>, <<" ">>, <<" ", "7">>, <<" ", "$", "y">>, <<" ", "7", " ", "$", "y">>}

\* every head with the name $x and every tail
SkipTexts ==
    {<<"(">> \o head \o <<" ", "$", "x">> \o tail \o <<")">> :
        head \in SkipHeads, tail \in SkipTails}

\* macro invocations without their opening bracket, and what the corpus
\* of heads puts between the bracket and the head
LeadBodies ==
    {<<"A", "N", "D", " ", "1", " ", "2", ")">>,
     <<"A", "N", "D", " ", "$", "a", ")">>,
     <<"O", "R", " ", "1", " ", "2", ")">>,
     <<"O", "R", " ", "$", "a", ")">>,
     <<"C", "H", "R", " ", "\"", "a", "\"", ")">>,
     <<"S", "T", "R", "I", "N", "G", " ", "\"", "a", "\"", ")">>,
     <<"S", "T", "A", "T", "I", "C", "_", "A", "R", "R", "A", "Y", " ", "2", ")">>,
     <<"L", "E", "T", " ", "$", "i", " ", "7", ")">>,
     <<"L", "E", "T", " ", "$", "i", " ", "7", " ", "$", "j", " ", "$", "i", ")">>,
     <<"p", "a", "r", "a", "m", " ", "$", "a", " ", "i", "3", "2", ")">>,
     <<"l", "o", "c", "a", "l", " ", "$", "a", " ", "i", "3", "2", ")">>,
     <<"l", "o", "c", "a", "l", " ", "$", "a", " ", "i", "3", "2", " ", "$", "b",
       " ", "i", "6", "4", ")">>}
Leads ==
    {<<>>, <<" ">>, <<"\n", " ", " ">>, <<"(", ";", " ", "c", " ", ";", ")", " ">>,
     <<";", ";", " ", "c", "\n">>}

\* every macro invocation after every lead
LeadTexts == {<<"(">> \o lead \o body : lead \in Leads, body \in LeadBodies}

\* bare keywords of the target dialect: the value types and some
\* instructions; HexKeywords are the ones spelled with hexadecimal digits only
Keywords ==
    {<<"i", "3", "2">>, <<"i", "6", "4">>, <<"f", "3", "2">>, <<"f", "6", "4">>,
     <<"n", "o", "p">>, <<"d", "r", "o", "p">>, <<"m", "u", "t">>,
     <<"e", "l", "s", "e">>, <<"r", "e", "t", "u", "r", "n">>,
     <<"s", "e", "l", "e", "c", "t">>, <<"a", "n", "y", "f", "u", "n", "c">>,
     <<"u", "n", "r", "e", "a", "c", "h", "a", "b", "l", "e">>}
HexKeywords == {<<"f", "3", "2">>, <<"f", "6", "4">>}

\* the forms of the corpus of keywords around the keyword kw
KeywordForms(kw) ==
    {<<"(">> \o K_result \o <<" ">> \o kw \o <<")">>,
     <<"(">> \o kw \o <<")">>,
     X_func_open \o <<"(">> \o K_result \o <<" ">> \o kw \o <<")", ")">>,
     <<"(">> \o K_block \o <<" ", "(">> \o kw \o <<")", ")">>}

KeywordTexts(kws) == UNION {KeywordForms(kw) : kw \in kws}

\* the texts a run over the corpus may read after the texts it has read
Corpus(c, read) ==
    IF c = "chars" THEN CharTexts
    ELSE IF c = "strings" THEN StringTexts
    ELSE IF c = "logic" THEN LogicTexts
    ELSE IF c = "hoist" THEN HoistTexts(MaxForms - FormsRead(read))
    ELSE IF c = "let" THEN LetTexts
    ELSE IF c = "modules" THEN ModuleTexts
    ELSE IF c = "trivia" THEN TriviaTexts
    ELSE IF c = "skip" THEN SkipTexts
    ELSE IF c = "lead" THEN LeadTexts
    ELSE IF c = "keywords" THEN KeywordTexts(Keywords)
    ELSE {}

\* the input files one run over the corpus may read
FileLimit(c) == IF c \in {"strings", "hoist", "modules"} THEN MaxFiles ELSE 1

NoTree == [ok |-> FALSE, node |-> NoNode, pos |-> 0]
NoOut == [ok |-> FALSE, text |-> <<>>]

(***************************************************************************)
(* Actions                                                                 *)
(***************************************************************************)

InitCorpus(c) ==
    /\ corpus = c
    /\ srcs = <<>>
    /\ tree = NoTree
    /\ asts = <<>>
    /\ ctx = empty_ctx
    /\ log = <<>>
    /\ out = NoOut
    /\ status = "ready"

\* read_str(src) of one input text: the tree is kept for the next step, or
\* the run fails
ReadStr ==
    /\ status = "ready"
    /\ Len(srcs) < FileLimit(corpus)
    /\ \E src \in Corpus(corpus, srcs) :
          \E r \in {read_str(src)} :
              /\ srcs' = Append(srcs, src)
              /\ tree' = r
              /\ status' = IF r.ok THEN "read" ELSE "failed"
    /\ UNCHANGED <<corpus, asts, ctx, log, out>>

\* wam_emit(tree, ctx) of the tree as read, with no wam_eval step
WamEmit ==
    /\ status = "read"
    /\ \E e \in {wam_emit(tree.node, ctx.modules)} :
           /\ out' = [ok |-> e.ok, text |-> Concat(e.toks)]
           /\ ctx' = IF e.ok THEN [ctx EXCEPT !.modules = e.modules] ELSE ctx
           /\ status' = IF e.ok THEN "emitted" ELSE "failed"
    /\ UNCHANGED <<corpus, srcs, tree, asts, log>>

\* wam_eval(tree, ctx) of the tree read last; the result joins the trees to
\* emit, or the run fails
WamEval ==
    /\ status = "read"
    /\ \E r \in {wam_eval(tree.node, [ctx |-> ctx, ok |-> TRUE, log |-> log])} :
           /\ asts' = IF r.st.ok THEN Append(asts, r.node) ELSE asts
           /\ ctx' = r.st.ctx
           /\ log' = r.st.log
           /\ status' = IF r.st.ok THEN "ready" ELSE "failed"
    /\ UNCHANGED <<corpus, srcs, tree, out>>

\* emit_module(asts, ctx, opts) of the trees evaluated so far
EmitModule ==
    /\ status = "ready"
    /\ asts # <<>>
    /\ \E e \in {emit_module(asts, ctx)} :
           /\ out' = [ok |-> e.ok, text |-> e.text]
           /\ ctx' = [ctx EXCEPT !.modules = e.modules]
           /\ status' = IF e.ok THEN "emitted" ELSE "failed"
    /\ UNCHANGED <<corpus, srcs, tree, asts, log>>

NextRead == ReadStr \/ WamEmit

InitRead == InitCorpus("chars")

SpecRead == InitRead /\ [][NextRead]_vars

\* the whole pipeline: read and evaluate the input files in turn, then emit
\* one module
Next == ReadStr \/ WamEval \/ EmitModule

InitStrings == InitCorpus("strings")

SpecStrings == InitStrings /\ [][Next]_vars

InitLogic == InitCorpus("logic")

SpecLogic == InitLogic /\ [][Next]_vars

InitHoist == InitCorpus("hoist")

SpecHoist == InitHoist /\ [][Next]_vars

InitLet == InitCorpus("let")

SpecLet == InitLet /\ [][Next]_vars

InitModules == InitCorpus("modules")

SpecModules == InitModules /\ [][Next]_vars

InitTrivia == InitCorpus("trivia")

SpecTrivia == InitTrivia /\ [][Next]_vars

InitSkip == InitCorpus("skip")

SpecSkip == InitSkip /\ [][Next]_vars

InitLead == InitCorpus("lead")

SpecLead == InitLead /\ [][Next]_vars

InitKeywords == InitCorpus("keywords")

SpecKeywords == InitKeywords /\ [][Next]_vars

(***************************************************************************)
(* Properties of the reader (SpecRead)                                     *)
(***************************************************************************)

RECURSIVE ParenScan(_, _, _)
\* the bracket structure of a token sequence: whether some ")" closes
\* nothing, and how many "(" are left open at the end
ParenScan(tokens, depth, stray) ==
    IF tokens = <<>> THEN [stray |-> stray, open |-> depth]
    ELSE IF Head(tokens) = <<"(">> THEN ParenScan(Tail(tokens), depth + 1, stray)
    ELSE IF Head(tokens) = <<")">>
         THEN IF depth = 0 THEN ParenScan(Tail(tokens), 0, TRUE)
              ELSE ParenScan(Tail(tokens), depth - 1, stray)
    ELSE ParenScan(Tail(tokens), depth, stray)

\* the text is one top-level parenthesized form: it opens with "(", the ")"
\* matching that "(" is its last character, and every character of it lies
\* in a bracket, an atom, whitespace or a comment
OneForm(text) ==
    LET toks == tokenize(text)
    IN  /\ Len(text) >= 2
        /\ Concat(toks) = text
        /\ text[1] = "("
        /\ text[Len(text)] = ")"
        /\ toks[1] = <<"(">>
        /\ toks[Len(toks)] = <<")">>
        /\ LET all == ParenScan(toks, 0, FALSE)
           IN  ~all.stray /\ all.open = 0
        /\ \A k \in 1..(Len(toks) - 1) :
              ParenScan(SubSeq(toks, 1, k), 0, FALSE).open > 0

\* C1: reading one top-level parenthesized form and emitting the tree with
\* no evaluation step gives tokens whose concatenation is the input text,
\* byte for byte: nothing is added between adjacent children and no input
\* character is dropped.
C1_RoundTrip ==
    (status \in {"emitted", "failed"} /\ OneForm(srcs[1]))
        => (status = "emitted" /\ out.text = srcs[1])

\* C8: read_str fails for every input with a list left open at the end of
\* the input, and for every input with a ")" that matches no "(".
C8_ParseFailures ==
    (status # "ready"
        /\ LET scan == ParenScan(tokenize(srcs[1]), 0, FALSE)
           IN  scan.stray \/ scan.open > 0)
        => ~tree.ok

(***************************************************************************)
(* Properties of the string table (SpecStrings)                            *)
(***************************************************************************)

\* the entries of ctx.strings that hold the string s
StringSlots(s) ==
    {i \in 1..Len(ctx.strings) :
        ctx.strings[i].kind = "string" /\ ctx.strings[i].str = s}

\* C2: for every decoded string value s evaluated as a string literal (bare
\* or through STRING) against one context, ctx.strings holds exactly one
\* entry whose payload is s, and every evaluation of s returned the
\* symbol-address expression naming that entry's symbol.
C2_OneEntryPerString ==
    \A k \in 1..Len(log) :
        log[k].macro = "STRING"
            => /\ Cardinality(StringSlots(log[k].key)) = 1
               /\ \A i \in StringSlots(log[k].key) :
                     log[k].ret = AddressForm(ctx.strings[i].name).node

(***************************************************************************)
(* Properties of the data section (SpecStrings)                            *)
(***************************************************************************)

RECURSIVE SortedSeq(_)
\* the numbers of a finite set in increasing order
SortedSeq(S) ==
    IF S = {} THEN <<>>
    ELSE LET m == Min(S) IN <<m>> \o SortedSeq(S \ {m})

\* the line of the text that starts at position i
LineAt(text, i) ==
    LET ends == {j \in i..(Len(text) + 1) : j = Len(text) + 1 \/ text[j] = "\n"}
    IN  SubSeq(text, i, Min(ends) - 1)

\* the positions where the lines of the text start
LineStarts(text) ==
    {1} \cup {i + 1 : i \in {j \in 1..Len(text) : text[j] = "\n"}}

\* the lines of the text that start with the prefix, in order
LinesWith(text, prefix) ==
    LET starts == {i \in LineStarts(text) :
                      /\ i + Len(prefix) - 1 <= Len(text)
                      /\ SubSeq(text, i, i + Len(prefix) - 1) = prefix}
        order == SortedSeq(starts)
    IN  [k \in 1..Len(order) |-> LineAt(text, order[k])]

EndsWith(s, suffix) ==
    Len(s) >= Len(suffix) /\ SubSeq(s, Len(s) - Len(suffix) + 1, Len(s)) = suffix

\* payload_len: the length of a string, or the byte count of an array
PayloadLen(slot) == IF slot.kind = "number" THEN slot.num ELSE Len(slot.str)

RECURSIVE ExpectedOffset(_, _)
\* the offset the layout rule gives entry k of the table (entry
\* Len(strings) + 1 stands for the end of the table)
ExpectedOffset(strings, k) ==
    IF k = 1 THEN 4
    ELSE ExpectedOffset(strings, k - 1) + PayloadLen(strings[k - 1]) + 1

\* the lines of the emitted data blob: the first is the NULL guard, line
\* k + 1 is the one of entry k
BlobLines(text) == LinesWith(text, T_data_indent \o <<"\"">>)

\* the line of the emitted text that declares the global of the name
GlobalLines(text, name) == LinesWith(text, T_global_open \o name \o <<" ">>)

ArrayCalls == SelectSeq(log, LAMBDA e : e.macro = "STATIC_ARRAY")
ArraySlots == {i \in 1..Len(ctx.strings) : ctx.strings[i].kind = "number"}

RECURSIVE Repeat(_, _)
Repeat(s, n) == IF n = 0 THEN <<>> ELSE s \o Repeat(s, n - 1)

AlignedText == X_open_call \o X_STATIC_ARRAY_2_4 \o <<")">>

\* the input read last was read and its evaluation threw
EvalFailed == status = "failed" /\ tree.ok /\ Len(asts) < Len(srcs)

\* the input read last was evaluated
EvalDone == status = "ready" /\ srcs # <<>> /\ Len(asts) = Len(srcs)

\* C11: the evaluation of (STATIC_ARRAY 2 4), a length with an alignment,
\* does not fail, and it appends an entry of 2 bytes to ctx.strings as
\* (STATIC_ARRAY 2) does
C11_AlignmentAccepted ==
    (srcs # <<>> /\ srcs[Len(srcs)] = AlignedText) =>
        /\ ~EvalFailed
        /\ EvalDone =>
              /\ ctx.strings # <<>>
              /\ ctx.strings[Len(ctx.strings)].kind = "number"
              /\ ctx.strings[Len(ctx.strings)].num = 2

(***************************************************************************)
(* Properties of AND and OR (SpecLogic)                                    *)
(***************************************************************************)

\* the words of a list node
WordsOf(form) == words(form.val)

\* an if form: (if (result i32) cond then else)
IsIf(form) ==
    /\ form.type = "List"
    /\ Len(WordsOf(form)) = 5
    /\ WordsOf(form)[1].type = "Literal" /\ WordsOf(form)[1].val = K_if
IfCond(form) == WordsOf(form)[3]
IfThen(form) == WordsOf(form)[4]
IfElse(form) == WordsOf(form)[5]

\* the form (i32.const n), and its number
IsConst(form) ==
    /\ form.type = "List"
    /\ Len(WordsOf(form)) = 2
    /\ WordsOf(form)[1].type = "Literal" /\ WordsOf(form)[1].val = K_i32_const
    /\ WordsOf(form)[2].type = "Integer"
ConstValue(form) == DigitsValue(WordsOf(form)[2].val, 10)

\* the form (get_local $x), and its name
IsGetLocal(form) ==
    /\ form.type = "List"
    /\ Len(WordsOf(form)) = 2
    /\ WordsOf(form)[1].type = "Literal" /\ WordsOf(form)[1].val = K_get_local
    /\ WordsOf(form)[2].type = "Name"
LocalName(form) == WordsOf(form)[2].val

\* the values the locals of the corpus may hold
Envs == [{X_name_a, X_name_b} -> {0, 1, 2}]

RECURSIVE Value(_, _)
\* the value of a form under "if c t e is t when c is nonzero, else e"
Value(form, env) ==
    IF IsIf(form)
    THEN IF Value(IfCond(form), env) # 0 THEN Value(IfThen(form), env)
         ELSE Value(IfElse(form), env)
    ELSE IF IsConst(form) THEN ConstValue(form)
    ELSE env[LocalName(form)]

RECURSIVE Reached(_, _)
\* the conditions tested, in order, when the chain of if forms is run
Reached(form, env) ==
    IF ~IsIf(form) THEN <<>>
    ELSE <<IfCond(form)>>
           \o Reached(IF Value(IfCond(form), env) # 0 THEN IfThen(form)
                      ELSE IfElse(form), env)

RECURSIVE AndShape(_, _), OrShape(_, _)
\* cs[1]'s if form has the rest's if form as then-branch and (i32.const 0)
\* as else-branch; the innermost then-branch is (i32.const 1)
AndShape(form, cs) ==
    IF cs = <<>> THEN IsConst(form) /\ ConstValue(form) = 1
    ELSE /\ IsIf(form)
         /\ IfCond(form) = Head(cs)
         /\ AndShape(IfThen(form), Tail(cs))
         /\ IsConst(IfElse(form)) /\ ConstValue(IfElse(form)) = 0

\* cs[1]'s if form has (i32.const 1) as then-branch and the rest's if form
\* as else-branch; the innermost else-branch is (i32.const 0)
OrShape(form, cs) ==
    IF cs = <<>> THEN IsConst(form) /\ ConstValue(form) = 0
    ELSE /\ IsIf(form)
         /\ IfCond(form) = Head(cs)
         /\ IsConst(IfThen(form)) /\ ConstValue(IfThen(form)) = 1
         /\ OrShape(IfElse(form), Tail(cs))

\* the conditions of the form read last, each evaluated on its own
EvaluatedConds ==
    LET cs == Tail(WordsOf(tree.node))
    IN  [k \in 1..Len(cs) |->
            wam_eval(cs[k], [ctx |-> empty_ctx, ok |-> TRUE, log |-> <<>>]).node]

\* the first k conditions, up to and with the first one that is zero
\* (stop = 0) or nonzero (stop = 1)
TestedPrefix(cs, env, stopAtNonzero) ==
    LET stops == {k \in 1..Len(cs) : (Value(cs[k], env) # 0) = stopAtNonzero}
    IN  IF stops = {} THEN cs ELSE SubSeq(cs, 1, Min(stops))

\* C3: (AND c1 .. cn) expands to if forms nested through the then-branches
\* and (OR c1 .. cn) to if forms nested through the else-branches; the AND
\* expansion has value 1 iff all conditions are nonzero, the OR expansion
\* iff one is, and a later condition is reached only when all earlier ones
\* were nonzero (AND) or zero (OR).
C3_ShortCircuit ==
    (status \in {"ready", "emitted"} /\ Len(asts) = 1) =>
        LET cs == EvaluatedConds
            isAnd == WordsOf(tree.node)[1].val = K_AND
        IN  /\ IF isAnd THEN AndShape(asts[1], cs) ELSE OrShape(asts[1], cs)
            /\ \A env \in Envs :
                  LET nonzero == {k \in 1..Len(cs) : Value(cs[k], env) # 0}
                  IN  /\ Value(asts[1], env) \in {0, 1}
                      /\ Value(asts[1], env) = 1
                            <=> IF isAnd THEN nonzero = 1..Len(cs) ELSE nonzero # {}
                      /\ Reached(asts[1], env) = TestedPrefix(cs, env, ~isAnd)

\* C3 at work: an AND form of three conditions or more, one of them
\* a nested OR, is expanded
C3_Witness ==
    /\ status = "ready"
    /\ Len(asts) = 1
    /\ Len(EvaluatedConds) >= 3
    /\ \E k \in 1..Len(EvaluatedConds) : IsIf(EvaluatedConds[k])
    /\ WordsOf(tree.node)[1].val = K_AND

(***************************************************************************)
(* Properties of hoisting (SpecHoist)                                      *)
(***************************************************************************)

\* the forms of a module text in source order, each [kind, text]: the
\* lists among the children of the module, without the whitespace around
\* them
ModuleFormsOf(text) ==
    LET lists == SelectSeq(read_str(text).node.val, LAMBDA a : a.type = "List")
    IN  [k \in 1..Len(lists) |->
            [kind |-> WordsOf(lists[k])[1].val,
             text |-> Concat(wam_emit(surround(lists[k], <<>>, <<>>), <<>>).toks)]]

RECURSIVE FormsOfAll(_)
\* the forms of the texts in the order evaluation meets them
FormsOfAll(texts) ==
    IF texts = <<>> THEN <<>>
    ELSE ModuleFormsOf(Head(texts)) \o FormsOfAll(Tail(texts))

\* the lines of the forms of one kind, in the order of the sequence
SectionOf(forms, kind) ==
    LET mine == SelectSeq(forms, LAMBDA f : f.kind = kind)
    IN  Concat([k \in 1..Len(mine) |-> <<" ", " ">> \o mine[k].text \o <<"\n">>])

\* the text emit_module writes before the hoisted forms
ModuleHead ==
    T_module_open \o JoinWith(ctx.modules, <<"_", "_">>) \o <<"\n", "\n">>
        \o T_import_memory \o NumText(MemorySize) \o T_import_memory_close
        \o T_import_memoryBase

\* C4: whatever the order in which evaluation meets import, global and
\* table forms, emit_module writes all hoisted imports, then all hoisted
\* globals, then all hoisted tables, each kind in the order met and each
\* form once, after the memory and memoryBase imports and before the data
\* section and the module bodies.
C4_HoistOrder ==
    status = "emitted" =>
        LET forms == FormsOfAll(srcs)
        IN  StartsWith(out.text,
                       ModuleHead
                           \o SectionOf(forms, K_import)
                           \o SectionOf(forms, K_global)
                           \o SectionOf(forms, K_table)
                           \o <<"\n">> \o T_string_end)

\* C4 at work: a module is emitted after two files in which a table came
\* first, then a global, then an import
C4_Witness ==
    /\ status = "emitted"
    /\ Len(srcs) = 2
    /\ LET forms == FormsOfAll(srcs)
       IN  /\ Len(forms) = 3
           /\ forms[1].kind = K_table
           /\ forms[2].kind = K_global
           /\ forms[3].kind = K_import

(***************************************************************************)
(* Properties of LET (SpecLet)                                             *)
(***************************************************************************)

HeadIs(form, keyword) ==
    /\ form.type = "List"
    /\ WordsOf(form) # <<>>
    /\ WordsOf(form)[1].type = "Literal" /\ WordsOf(form)[1].val = keyword

\* the place of the LET form among the words of the form read last: 0 when
\* the LET form is the form itself
LetPlace ==
    IF HeadIs(tree.node, K_LET) THEN 0
    ELSE CHOOSE p \in 1..Len(WordsOf(tree.node)) : HeadIs(WordsOf(tree.node)[p], K_LET)

\* the arguments of the LET form read last
LetArgs ==
    Tail(WordsOf(IF LetPlace = 0 THEN tree.node ELSE WordsOf(tree.node)[LetPlace]))

\* a form without the whitespace around it
Bare(form) == surround(form, <<>>, <<>>)

\* (local n_i i32) for every pair in order, then (set_local n_i eval(e_i))
\* for every pair in order
LetExpected(args) ==
    LET k == Len(args) \div 2
    IN  [i \in 1..k |->
            Node("List", <<Node("Literal", K_local), args[2 * i - 1],
                           Node("Literal", K_i32)>>)]
        \o [i \in 1..k |->
            Node("List", <<Node("Literal", K_set_local), args[2 * i - 1],
                           Bare(wam_eval(args[2 * i],
                                         [ctx |-> empty_ctx, ok |-> TRUE,
                                          log |-> <<>>]).node)>>)]

C7_FailureReached ==
    status = "failed" /\ srcs # <<>> /\ Len(LetArgs) = 3

(***************************************************************************)
(* Properties of module merging (SpecModules)                              *)
(***************************************************************************)

\* the places where the part occurs in the text
Occurrences(text, part) ==
    {i \in 1..(Len(text) - Len(part) + 1) :
        text[i] = part[1] /\ SubSeq(text, i, i + Len(part) - 1) = part}

\* the name of a module text of the corpus, without the sigil, and the
\* text between the name and the closing bracket
NameIn(text) == <<text[Len(X_module_open) + 1]>>
BodyIn(text) == SubSeq(text, Len(X_module_open) + 2, Len(text) - 1)

\* the brackets of the text are one pair with balanced pairs inside: the
\* first character opens, the last closes it, and nothing closes it before
\* (for a text with no bracket in a string or a comment)
OneBracketedForm(text) ==
    LET opens == {j \in 1..Len(text) : text[j] = "("}
        closes == {j \in 1..Len(text) : text[j] = ")"}
        depth(i) == Cardinality({j \in opens : j <= i})
                        - Cardinality({j \in closes : j <= i})
    IN  /\ text # <<>>
        /\ text[1] = "("
        /\ \A i \in 1..(Len(text) - 1) : depth(i) > 0
        /\ depth(Len(text)) = 0

RECURSIVE InOrderFrom(_, _, _)
\* the parts occur in the text one after the other, from position from on
InOrderFrom(text, parts, from) ==
    IF parts = <<>> THEN TRUE
    ELSE IF Head(parts) = <<>> THEN InOrderFrom(text, Tail(parts), from)
    ELSE \E i \in Occurrences(text, Head(parts)) :
            /\ i >= from
            /\ InOrderFrom(text, Tail(parts), i + Len(Head(parts)))

\* C9: for input trees (module $name_i ...) read and evaluated in order,
\* emit_module writes one module header named name_1__name_2__..__name_n,
\* none of the openers and closers of the inputs, and the bodies of the
\* inputs in input order after the data section.
C9_ModuleMerging ==
    status = "emitted" =>
        LET names == [k \in 1..Len(srcs) |-> NameIn(srcs[k])]
            bodies == [k \in 1..Len(srcs) |-> BodyIn(srcs[k])]
            text == out.text
        IN  /\ StartsWith(text, X_module_open \o JoinWith(names, <<"_", "_">>)
                                  \o <<"\n", "\n">>)
            /\ Occurrences(text, X_module_open) = {1}
            /\ OneBracketedForm(text)
            /\ \E d \in Occurrences(text, T_data_close) :
                  InOrderFrom(text, bodies, d + Len(T_data_close))

\* the same for runs in which every module has a form after its name
C9_WithBodies ==
    (\A k \in 1..Len(srcs) : BodyIn(srcs[k]) # <<>>) => C9_ModuleMerging

(***************************************************************************)
(* Properties of whitespace and comments (SpecTrivia)                      *)
(***************************************************************************)

\* the whitespace and comment fragments of a text
Fragments(text) ==
    LET toks == tokenize(text)
    IN  {toks[k] : k \in {j \in 1..Len(toks) : is_whitespace(toks[j])}}

\* C10: every whitespace or comment fragment of the source, also one
\* between the arguments of a macro invocation (AND, OR, LET, param,
\* local), is present in the text wam_eval and emit_module produce.
C10_TriviaRetained ==
    status = "emitted" =>
        \A fragment \in Fragments(srcs[1]) : Occurrences(out.text, fragment) # {}

\* the same for the forms of the corpus that are no macro invocation
C10_OutsideMacros ==
    (\E ws \in {W_add, W_block}, g \in 1..2, gap \in TriviaGaps :
        srcs = <<X_func_open \o Gapped(ws, g, gap) \o <<")">>>>)
        => C10_TriviaRetained

(***************************************************************************)
(* Properties of the forms that skip their own name (SpecSkip)             *)
(***************************************************************************)

\* the text wam_emit makes of a node apart from its own whitespace
TextOf(node) == Concat(wam_emit(surround(node, <<>>, <<>>), <<>>).toks)

\* the text of the evaluation of a word that is a Name or an Integer
EvaluatedText(word) ==
    IF word.type = "Name" THEN <<"(">> \o K_get_local \o <<" ">> \o word.val \o <<")">>
    ELSE IF word.type = "Integer"
    THEN <<"(">> \o K_i32_const \o <<" ">> \o word.val \o <<")">>
    ELSE TextOf(word)

\* the form read last starts with its name, and its evaluation left the
\* name a bare Name and evaluated every word after it
NameSkipped ==
    LET read == words(tree.node.val)
        res == words(asts[Len(asts)].val)
    IN  /\ Len(res) = Len(read)
        /\ res[1] = read[1]
        /\ res[2] = read[2]
        /\ res[2].type = "Name"
        /\ \A k \in 3..Len(read) : TextOf(res[k]) = EvaluatedText(read[k])

\* C12: in a form whose head is module, func, call, set_local, set_global,
\* block, loop or br_if and whose second word is a Name, the evaluation
\* leaves the Name bare and evaluates the later words, also when the Name
\* is the last word
C12_SkipFirst == EvalDone => NameSkipped

\* the same for the forms in which something follows the name
C12_NameNotLast ==
    (EvalDone /\ tree.node.val[Len(tree.node.val)].type # "Name") => NameSkipped

(***************************************************************************)
(* Properties of the macro dispatch (SpecLead)                             *)
(***************************************************************************)

\* the text of the corpus without what stands between its opening bracket
\* and its head
Unled(src) ==
    CHOOSE t \in {<<"(">> \o body : body \in LeadBodies} :
        \E lead \in Leads : src = <<"(">> \o lead \o Tail(t)

\* wam_eval, on a new context, of the form read from a text
EvalOf(src) ==
    wam_eval(read_str(src).node, [ctx |-> empty_ctx, ok |-> TRUE, log |-> <<>>])

\* the evaluation of the input read last ended as the evaluation e
SameExpansion(e) ==
    /\ EvalDone <=> e.st.ok
    /\ EvalDone =>
          /\ asts[Len(asts)].type = e.node.type
          /\ asts[Len(asts)].val = e.node.val
          /\ ctx = e.st.ctx

\* C13: a list whose first non-whitespace child names a macro expands as
\* the same list does without the whitespace or comment before the head
C13_HeadDispatch ==
    (EvalDone \/ EvalFailed) => SameExpansion(EvalOf(Unled(srcs[1])))

\* the invocations of the corpus that start with their head all expand
C13_PlainExpands ==
    \A body \in LeadBodies : (srcs = <<<<"(">> \o body>>) => ~EvalFailed

(***************************************************************************)
(* Properties of the names of ctx.strings (SpecStrings)                    *)
(***************************************************************************)

\* the property key of the payload of an entry of ctx.strings
SlotKey(slot) ==
    IF slot.kind = "number" THEN NumText(slot.num)
    ELSE IF slot.kind = "nan" THEN <<"N", "a", "N">>
    ELSE slot.str

\* the entry at index i (from 0) has a name ending in _i, the names differ
\* pairwise, and every value of ctx.string_map is the name of the entry
\* whose payload is its key
SlotNames ==
    /\ \A k \in 1..Len(ctx.strings) :
          EndsWith(ctx.strings[k].name, <<"_">> \o NumText(k - 1))
    /\ \A j, k \in 1..Len(ctx.strings) :
          ctx.strings[j].name = ctx.strings[k].name => j = k
    /\ \A key \in DOMAIN ctx.string_map :
          \E k \in 1..Len(ctx.strings) :
              /\ ctx.strings[k].name = ctx.string_map[key]
              /\ SlotKey(ctx.strings[k]) = key

\* a step leaves the entries ctx.strings has where they are and as they are
AppendOnly ==
    /\ Len(ctx.strings') >= Len(ctx.strings)
    /\ SubSeq(ctx.strings', 1, Len(ctx.strings)) = ctx.strings

\* C14: after any STRING and STATIC_ARRAY evaluations on one context
\* ctx.strings has only grown by appending, the entry at index i has a name
\* ending in _i, the names are pairwise distinct, and every value of
\* ctx.string_map names the entry whose payload is its key
C14_SlotNames == []SlotNames /\ [][AppendOnly]_vars

\* C14 at work: the table holds strings and arrays from two input files,
\* and a string that was in it already was evaluated again
C14_Witness ==
    /\ Len(srcs) = 2 /\ EvalDone
    /\ Len(ctx.strings) >= 3
    /\ \E j, k \in 1..Len(ctx.strings) :
          ctx.strings[j].kind = "string" /\ ctx.strings[k].kind = "number" /\ k < j
    /\ \E a, b \in 1..Len(log) :
          a < b /\ log[a].macro = "STRING" /\ log[b].macro = "STRING"
                /\ log[a].key = log[b].key

(***************************************************************************)
(* Properties of bare keywords (SpecKeywords)                              *)
(***************************************************************************)

RECURSIVE AtomTypes(_)
\* the node types of the atoms of a tree that are no whitespace
AtomTypes(node) ==
    IF IsList(node) THEN UNION {AtomTypes(node.val[k]) : k \in 1..Len(node.val)}
    ELSE IF node.type = "Whitespace" THEN {}
    ELSE {node.type}

\* the keywords of the input read last were read as Literals, and its
\* evaluation returned the tree as it was read
PassedThrough ==
    /\ tree.ok => AtomTypes(tree.node) \subseteq {"Literal", "Name"}
    /\ ~EvalFailed
    /\ EvalDone => asts[Len(asts)] = tree.node

\* C15: every bare keyword is read as a Literal and left as it is by
\* wam_eval; (result T) evaluates to (result T) for T = i32, i64, f32, f64,
\* with T never read as an Integer or Float and never wrapped in a const form
C15_KeywordPassThrough == srcs # <<>> => PassedThrough

\* the same for the keywords that are not spelled with hexadecimal digits only
C15_OtherKeywords ==
    (srcs # <<>> /\ srcs[1] \in KeywordTexts(Keywords \ HexKeywords)) => PassedThrough

====
